---- MODULE Spec2Model ----
(***************************************************************************)
(* AceSPI: the two software SPI transmitters, SimpleSpiInterface (built    *)
(* on the Arduino shiftOut()) and SimpleSpiFastInterface (built on         *)
(* digitalWriteFast() and its own shiftOutFast()).                         *)
(*                                                                         *)
(* The two classes are run side by side, each on its own copy of the same  *)
(* board: every action applies one operation, with the same arguments, to  *)
(* both.  For each tier the state holds the mode and the output level of   *)
(* every pin, the levels at entry of the last operation, and the sequence  *)
(* of pinMode / digitalWrite calls that operation made.                    *)
(***************************************************************************)
EXTENDS Integers, Sequences, FiniteSets, TLC

VARIABLES
  mode,       \* mode[t][p]  : direction of pin p on the board of tier t
  level,      \* level[t][p] : output level of pin p on the board of tier t
  pre,        \* pre[t][p]   : level[t][p] at entry of the last operation
  writes,     \* writes[t]   : the pin calls made by the last operation
  op,         \* the last operation and its arguments
  latchLog,   \* levels written to the latch pin, in order (SpecSend only)
  run,        \* the call in progress and its position (SpecStep only)
  spi,        \* the SPI object and the build of the hardware wrappers
  isr         \* the call suspended by an interrupt (SpecShared only)

vars == <<mode, level, pre, writes, op, latchLog, run, spi, isr>>

----------------------------------------------------------------------------
(* Bounds of the model *)

\* most SPI transactions left open, or closed without being opened, by
\* unpaired beginTransaction / endTransaction calls
MaxOpen == 2

\* number of byte values of ByteList used as arguments in Spec
NumSamples == 4
\* number of send calls followed by SpecSend
MaxCalls == 3

----------------------------------------------------------------------------
(* Program constants *)

\* the template arguments of SimpleSpiFastInterface<11, 12, 13>
T_LATCH_PIN == 11
T_DATA_PIN == 12
T_CLOCK_PIN == 13

\* SimpleSpiInterface is constructed with the same three pins; the members
\* are const
mLatchPin == T_LATCH_PIN
mDataPin == T_DATA_PIN
\* a clock member that does not hold the constructor argument
mClockPinMoved == T_CLOCK_PIN - 3
mClockPin == T_CLOCK_PIN

LOW == "LOW"
HIGH == "HIGH"
INPUT == "INPUT"
OUTPUT == "OUTPUT"
MSBFIRST == "MSBFIRST"
LSBFIRST == "LSBFIRST"

Tiers == {"Simple", "Fast"}
Pins == 10..13
Levels == {LOW, HIGH}
Modes == {INPUT, OUTPUT}
Byte == 0..255

ByteList == <<17, 128, 52, 18, 255, 0, 1, 170, 85>>
SampleBytes == {ByteList[k] : k \in 1..NumSamples}
SampleWords == {m * 256 + l : m \in SampleBytes, l \in SampleBytes}

----------------------------------------------------------------------------
(* Integer arithmetic of the C++ code *)

RECURSIVE BitAnd(_, _)
BitAnd(a, b) ==
  IF a = 0 \/ b = 0 THEN 0
  ELSE (a % 2) * (b % 2) + 2 * BitAnd(a \div 2, b \div 2)

RECURSIVE BitOr(_, _)
BitOr(a, b) ==
  IF a = 0 THEN b
  ELSE IF b = 0 THEN a
  ELSE (IF a % 2 = 1 \/ b % 2 = 1 THEN 1 ELSE 0) + 2 * BitOr(a \div 2, b \div 2)

\* conversion to uint8_t and to uint16_t
U8(x) == x % 256
U16(x) == x % 65536

\* the two bytes of a 16-bit value, as transfer16 splits it
MsbOf(value) == U8(BitAnd(value, 65280) \div 256)
LsbOf(value) == U8(BitAnd(value, 255))

----------------------------------------------------------------------------
(* The pin calls *)

\* pinMode(pin, m) / pinModeFast(pin, m)
PinModeCall(pin, m) == [call |-> "pinMode", pin |-> pin, arg |-> m]

\* digitalWrite(pin, val) / digitalWriteFast(pin, val)
DigitalWriteCall(pin, val) == [call |-> "digitalWrite", pin |-> pin, arg |-> val]

\* the levels after the calls of s, made in order from the levels lv
RECURSIVE LevelsAfter(_, _)
LevelsAfter(lv, s) ==
  IF s = <<>> THEN lv
  ELSE LevelsAfter(
         IF Head(s).call = "digitalWrite"
           THEN [lv EXCEPT ![Head(s).pin] = Head(s).arg]
           ELSE lv,
         Tail(s))

\* the modes after the calls of s, made in order from the modes md
RECURSIVE ModesAfter(_, _)
ModesAfter(md, s) ==
  IF s = <<>> THEN md
  ELSE ModesAfter(
         IF Head(s).call = "pinMode"
           THEN [md EXCEPT ![Head(s).pin] = Head(s).arg]
           ELSE md,
         Tail(s))

----------------------------------------------------------------------------
(* SimpleSpiFastInterface<T_LATCH_PIN, T_DATA_PIN, T_CLOCK_PIN> *)

\* the defaulted constructor: no calls
SimpleSpiFastInterface == <<>>

\* the loop of shiftOutFast with the data bit written after the rising edge
RECURSIVE ShiftOutFastLoopDataLate(_, _, _)
ShiftOutFastLoopDataLate(output, mask, i) ==
  IF i < 8
    THEN << DigitalWriteCall(T_CLOCK_PIN, LOW),
            DigitalWriteCall(T_CLOCK_PIN, HIGH),
            IF BitAnd(output, mask) # 0
              THEN DigitalWriteCall(T_DATA_PIN, HIGH)
              ELSE DigitalWriteCall(T_DATA_PIN, LOW) >>
         \o ShiftOutFastLoopDataLate(output, U8(mask \div 2), U8(i + 1))
    ELSE <<>>

\* the loop of shiftOutFast from iteration i on, with the mask of that iteration
RECURSIVE ShiftOutFastLoop(_, _, _)
ShiftOutFastLoop(output, mask, i) ==
  IF i < 8
    THEN << DigitalWriteCall(T_CLOCK_PIN, LOW),
            IF BitAnd(output, mask) # 0
              THEN DigitalWriteCall(T_DATA_PIN, HIGH)
              ELSE DigitalWriteCall(T_DATA_PIN, LOW),
            DigitalWriteCall(T_CLOCK_PIN, HIGH) >>
         \o ShiftOutFastLoop(output, U8(mask \div 2), U8(i + 1))
    ELSE <<>>

\* shiftOutFast with the mask started at bit 0
shiftOutFastFromBit0(output) == ShiftOutFastLoop(output, 1, 0)

shiftOutFast(output) == ShiftOutFastLoop(output, 128, 0)

\* begin() that leaves out the clock pin
FastBeginNoClock ==
  << PinModeCall(T_LATCH_PIN, OUTPUT),
     PinModeCall(T_DATA_PIN, OUTPUT) >>

\* begin() that also drives the latch to its inactive level
FastBeginLatchHigh ==
  << PinModeCall(T_LATCH_PIN, OUTPUT),
     PinModeCall(T_DATA_PIN, OUTPUT),
     PinModeCall(T_CLOCK_PIN, OUTPUT),
     DigitalWriteCall(T_LATCH_PIN, HIGH) >>

FastBegin ==
  << PinModeCall(T_LATCH_PIN, OUTPUT),
     PinModeCall(T_DATA_PIN, OUTPUT),
     PinModeCall(T_CLOCK_PIN, OUTPUT) >>

FastEnd ==
  << PinModeCall(T_LATCH_PIN, INPUT),
     PinModeCall(T_DATA_PIN, INPUT),
     PinModeCall(T_CLOCK_PIN, INPUT) >>

FastBeginTransaction == << DigitalWriteCall(T_LATCH_PIN, LOW) >>

\* endTransaction() that releases the latch pin after the frame
FastEndTransactionReleases ==
  << DigitalWriteCall(T_LATCH_PIN, HIGH), PinModeCall(T_LATCH_PIN, INPUT) >>

FastEndTransaction == << DigitalWriteCall(T_LATCH_PIN, HIGH) >>

FastTransfer(value) == shiftOutFast(value)

\* transfer16 that frames the two bytes with the latch itself
FastTransfer16Framed(value) ==
  FastBeginTransaction \o shiftOutFast(MsbOf(value))
    \o shiftOutFast(LsbOf(value)) \o FastEndTransaction

FastTransfer16(value) ==
  LET msb == MsbOf(value)
      lsb == LsbOf(value)
  IN  shiftOutFast(msb) \o shiftOutFast(lsb)

\* send8 that does not end the transaction
FastSend8NoEnd(value) == FastBeginTransaction \o FastTransfer(value)

FastSend8(value) ==
  FastBeginTransaction \o FastTransfer(value) \o FastEndTransaction

FastSend16(value) ==
  FastBeginTransaction \o FastTransfer16(value) \o FastEndTransaction

\* send16(msb, lsb) that shifts the low byte out first
FastSend16BytesSwapped(msb, lsb) ==
  FastBeginTransaction \o shiftOutFast(lsb) \o shiftOutFast(msb)
    \o FastEndTransaction

FastSend16Bytes(msb, lsb) ==
  FastBeginTransaction \o shiftOutFast(msb) \o shiftOutFast(lsb)
    \o FastEndTransaction

----------------------------------------------------------------------------
(* SimpleSpiInterface(latchPin, dataPin, clockPin) *)

\* a constructor that also configures the pins, as begin() does
SimpleSpiInterfaceBegins(latchPin, dataPin, clockPin) ==
  << PinModeCall(latchPin, OUTPUT),
     PinModeCall(dataPin, OUTPUT),
     PinModeCall(clockPin, OUTPUT) >>

\* the constructor stores its three arguments in the members: no calls
SimpleSpiInterface(latchPin, dataPin, clockPin) == <<>>

\* The Arduino core's shiftOut(dataPin, clockPin, bitOrder, val), which
\* SimpleSpiInterface calls: for each of the 8 bits it writes the bit to the
\* data pin, then takes the clock pin HIGH, then LOW; val is shifted by one
\* position per iteration.
RECURSIVE ShiftOutLoop(_, _, _, _, _)
ShiftOutLoop(dataPin, clockPin, bitOrder, val, i) ==
  IF i < 8
    THEN << IF bitOrder = LSBFIRST
              THEN DigitalWriteCall(dataPin,
                     IF BitAnd(val, 1) # 0 THEN HIGH ELSE LOW)
              ELSE DigitalWriteCall(dataPin,
                     IF BitAnd(val, 128) # 0 THEN HIGH ELSE LOW),
            DigitalWriteCall(clockPin, HIGH),
            DigitalWriteCall(clockPin, LOW) >>
         \o ShiftOutLoop(dataPin, clockPin, bitOrder,
              IF bitOrder = LSBFIRST THEN val \div 2 ELSE U8(val * 2),
              U8(i + 1))
    ELSE <<>>

shiftOut(dataPin, clockPin, bitOrder, val) ==
  ShiftOutLoop(dataPin, clockPin, bitOrder, val, 0)

SimpleBegin ==
  << PinModeCall(mLatchPin, OUTPUT),
     PinModeCall(mDataPin, OUTPUT),
     PinModeCall(mClockPin, OUTPUT) >>

\* end() that leaves out the clock pin
SimpleEndNoClock ==
  << PinModeCall(mLatchPin, INPUT),
     PinModeCall(mDataPin, INPUT) >>

SimpleEnd ==
  << PinModeCall(mLatchPin, INPUT),
     PinModeCall(mDataPin, INPUT),
     PinModeCall(mClockPin, INPUT) >>

\* beginTransaction() that also takes the clock LOW
SimpleBeginTransactionClearsClock ==
  << DigitalWriteCall(mLatchPin, LOW), DigitalWriteCall(mClockPin, LOW) >>

SimpleBeginTransaction == << DigitalWriteCall(mLatchPin, LOW) >>

SimpleEndTransaction == << DigitalWriteCall(mLatchPin, HIGH) >>

SimpleTransfer(value) == shiftOut(mDataPin, mClockPin, MSBFIRST, value)

\* transfer16 that shifts the low byte out first
SimpleTransfer16LsbFirst(value) ==
  shiftOut(mDataPin, mClockPin, MSBFIRST, LsbOf(value))
    \o shiftOut(mDataPin, mClockPin, MSBFIRST, MsbOf(value))

SimpleTransfer16(value) ==
  LET msb == MsbOf(value)
      lsb == LsbOf(value)
  IN  shiftOut(mDataPin, mClockPin, MSBFIRST, msb)
        \o shiftOut(mDataPin, mClockPin, MSBFIRST, lsb)

SimpleSend8(value) ==
  SimpleBeginTransaction \o SimpleTransfer(value) \o SimpleEndTransaction

\* send16 that does not end the transaction
SimpleSend16NoEnd(value) == SimpleBeginTransaction \o SimpleTransfer16(value)

SimpleSend16(value) ==
  SimpleBeginTransaction \o SimpleTransfer16(value) \o SimpleEndTransaction

\* send16(msb, lsb) that shifts the low byte out first
SimpleSend16BytesSwapped(msb, lsb) ==
  SimpleBeginTransaction
    \o shiftOut(mDataPin, mClockPin, MSBFIRST, lsb)
    \o shiftOut(mDataPin, mClockPin, MSBFIRST, msb)
    \o SimpleEndTransaction

SimpleSend16Bytes(msb, lsb) ==
  SimpleBeginTransaction
    \o shiftOut(mDataPin, mClockPin, MSBFIRST, msb)
    \o shiftOut(mDataPin, mClockPin, MSBFIRST, lsb)
    \o SimpleEndTransaction

----------------------------------------------------------------------------
(* SwSpiFastInterface<LATCH_PIN, DATA_PIN, CLOCK_PIN>: the earlier version *)
(* of the fast software class, instantiated on the same three pins.  Its   *)
(* private shiftOutFast is the routine of SimpleSpiFastInterface.          *)

SwBegin ==
  << PinModeCall(T_LATCH_PIN, OUTPUT),
     PinModeCall(T_DATA_PIN, OUTPUT),
     PinModeCall(T_CLOCK_PIN, OUTPUT) >>

SwEnd ==
  << PinModeCall(T_LATCH_PIN, INPUT),
     PinModeCall(T_DATA_PIN, INPUT),
     PinModeCall(T_CLOCK_PIN, INPUT) >>

SwSend8(value) ==
  << DigitalWriteCall(T_LATCH_PIN, LOW) >>
    \o shiftOutFast(value)
    \o << DigitalWriteCall(T_LATCH_PIN, HIGH) >>

\* send16 that latches each byte on its own
SwSend16TwoFrames(value) ==
  LET msb == BitAnd(value, 65280) \div 256
      lsb == BitAnd(value, 255)
  IN  SwSend8(msb) \o SwSend8(lsb)

SwSend16(value) ==
  LET msb == MsbOf(value)
      lsb == LsbOf(value)
  IN  << DigitalWriteCall(T_LATCH_PIN, LOW) >>
        \o shiftOutFast(msb)
        \o shiftOutFast(lsb)
        \o << DigitalWriteCall(T_LATCH_PIN, HIGH) >>

----------------------------------------------------------------------------
(* HardSpiInterface<T_SPI, T_CLOCK_SPEED>(spi, latchPin) and               *)
(* HardSpiFastInterface<T_SPI, T_LATCH_PIN, T_CLOCK_SPEED>(spi), with the  *)
(* earlier version of HardSpiFastInterface (Old): the calls they make on   *)
(* the SPI object are events next to the pin calls.                        *)

SPI_MODE0 == "SPI_MODE0"

\* a bit order other than the one the wrappers are written for
kBitOrderLsb == LSBFIRST

kBitOrder == MSBFIRST
kSpiMode == SPI_MODE0

\* the default of the template parameter T_CLOCK_SPEED, and the constant of
\* the earlier HardSpiFastInterface
DefaultClockSpeed == 8000000
kClockSpeed == 8000000

\* the clock speeds the wrappers are instantiated with
ClockSpeeds == {DefaultClockSpeed, 1000000}

\* the template argument of this build, and whether it is built for ESP8266
T_CLOCK_SPEED == spi.speed
ESP8266 == spi.esp8266

SPISettings(clock, bitOrder, dataMode) ==
  [clock |-> clock, bitOrder |-> bitOrder, dataMode |-> dataMode]

\* a call on the SPI object
SpiCall(name, arg) == [call |-> name, arg |-> arg]

\* the constructors store the SPI reference (and the latch pin): no calls
HardSpiInterface(mSpi, latchPin) == <<>>
HardSpiFastInterface == <<>>

\* begin() that also starts the SPI object
HardBeginStartsSpi ==
  << SpiCall("SPI.begin", "none"), PinModeCall(mLatchPin, OUTPUT) >>

HardBegin ==
  (IF ESP8266 THEN << SpiCall("SPI.setHwCs", FALSE) >> ELSE <<>>)
    \o << PinModeCall(mLatchPin, OUTPUT) >>

HardEnd == << PinModeCall(mLatchPin, INPUT) >>

HardBeginTransaction ==
  << SpiCall("SPI.beginTransaction",
             SPISettings(T_CLOCK_SPEED, kBitOrder, kSpiMode)),
     DigitalWriteCall(mLatchPin, LOW) >>

\* endTransaction() that closes the SPI transaction before raising the latch
HardEndTransactionSpiFirst ==
  << SpiCall("SPI.endTransaction", "none"),
     DigitalWriteCall(mLatchPin, HIGH) >>

HardEndTransaction ==
  << DigitalWriteCall(mLatchPin, HIGH),
     SpiCall("SPI.endTransaction", "none") >>

HardTransfer(value) == << SpiCall("SPI.transfer", value) >>

HardTransfer16(value) == << SpiCall("SPI.transfer16", value) >>

HardSend8(value) ==
  HardBeginTransaction \o HardTransfer(value) \o HardEndTransaction

HardSend16(value) ==
  HardBeginTransaction \o HardTransfer16(value) \o HardEndTransaction

\* send16(msb, lsb) with the word built in 8 bits
HardSend16BytesNarrow(msb, lsb) ==
  LET value == BitOr(U8(msb * 256), lsb)
  IN  HardBeginTransaction \o HardTransfer16(value) \o HardEndTransaction

HardSend16Bytes(msb, lsb) ==
  LET value == U16(BitOr(U16(U16(msb) * 256), U16(lsb)))
  IN  HardBeginTransaction \o HardTransfer16(value) \o HardEndTransaction

HardFastBegin ==
  (IF ESP8266 THEN << SpiCall("SPI.setHwCs", FALSE) >> ELSE <<>>)
    \o << PinModeCall(T_LATCH_PIN, OUTPUT) >>

HardFastEnd == << PinModeCall(T_LATCH_PIN, INPUT) >>

HardFastBeginTransaction ==
  << SpiCall("SPI.beginTransaction",
             SPISettings(T_CLOCK_SPEED, kBitOrder, kSpiMode)),
     DigitalWriteCall(T_LATCH_PIN, LOW) >>

\* the fast endTransaction() with its two calls in the other order
HardFastEndTransactionSpiFirst ==
  << SpiCall("SPI.endTransaction", "none"),
     DigitalWriteCall(T_LATCH_PIN, HIGH) >>

HardFastEndTransaction ==
  << DigitalWriteCall(T_LATCH_PIN, HIGH),
     SpiCall("SPI.endTransaction", "none") >>

HardFastTransfer(value) == << SpiCall("SPI.transfer", value) >>

HardFastTransfer16(value) == << SpiCall("SPI.transfer16", value) >>

HardFastSend8(value) ==
  HardFastBeginTransaction \o HardFastTransfer(value)
    \o HardFastEndTransaction

HardFastSend16(value) ==
  HardFastBeginTransaction \o HardFastTransfer16(value)
    \o HardFastEndTransaction

HardFastSend16Bytes(msb, lsb) ==
  LET value == U16(BitOr(U16(U16(msb) * 256), U16(lsb)))
  IN  HardFastBeginTransaction \o HardFastTransfer16(value)
        \o HardFastEndTransaction

HardFastOldBegin ==
  (IF ESP8266 THEN << SpiCall("SPI.setHwCs", FALSE) >> ELSE <<>>)
    \o << PinModeCall(T_LATCH_PIN, OUTPUT) >>

HardFastOldEnd == << PinModeCall(T_LATCH_PIN, INPUT) >>

HardFastOldSend8(value) ==
  << SpiCall("SPI.beginTransaction",
             SPISettings(kClockSpeed, kBitOrder, kSpiMode)),
     DigitalWriteCall(T_LATCH_PIN, LOW),
     SpiCall("SPI.transfer", value),
     DigitalWriteCall(T_LATCH_PIN, HIGH),
     SpiCall("SPI.endTransaction", "none") >>

\* send16 that leaves the SPI transaction open
HardFastOldSend16NoEnd(value) ==
  << SpiCall("SPI.beginTransaction",
             SPISettings(kClockSpeed, kBitOrder, kSpiMode)),
     DigitalWriteCall(T_LATCH_PIN, LOW),
     SpiCall("SPI.transfer16", value),
     DigitalWriteCall(T_LATCH_PIN, HIGH) >>

HardFastOldSend16(value) ==
  << SpiCall("SPI.beginTransaction",
             SPISettings(kClockSpeed, kBitOrder, kSpiMode)),
     DigitalWriteCall(T_LATCH_PIN, LOW),
     SpiCall("SPI.transfer16", value),
     DigitalWriteCall(T_LATCH_PIN, HIGH),
     SpiCall("SPI.endTransaction", "none") >>

HardFastOldSend16Bytes(msb, lsb) ==
  LET value == U16(BitOr(U16(U16(msb) * 256), U16(lsb)))
  IN  HardFastOldSend16(value)

----------------------------------------------------------------------------
(* The operations as calls *)

Op(name, a, b) == [a |-> a, b |-> b, name |-> name]

\* the calls the sequences of Spec and of SpecSend are made of
SampleOps ==
  {Op(n, 0, 0) : n \in {"begin", "end", "beginTransaction", "endTransaction"}}
    \cup {Op(n, v, 0) : n \in {"transfer", "send8"}, v \in SampleBytes}
    \cup {Op(n, v, 0) : n \in {"transfer16", "send16"}, v \in SampleWords}
    \cup {Op("send16bytes", m, l) : m \in SampleBytes, l \in SampleBytes}

\* the calls of SpecByte: every byte value
ByteOps == {Op(n, v, 0) : n \in {"transfer", "send8"}, v \in Byte}

\* the pin calls made by operation o of SimpleSpiInterface
SimpleCalls(o) ==
  CASE o.name = "begin" -> SimpleBegin
    [] o.name = "end" -> SimpleEnd
    [] o.name = "beginTransaction" -> SimpleBeginTransaction
    [] o.name = "endTransaction" -> SimpleEndTransaction
    [] o.name = "transfer" -> SimpleTransfer(o.a)
    [] o.name = "transfer16" -> SimpleTransfer16(o.a)
    [] o.name = "send8" -> SimpleSend8(o.a)
    [] o.name = "send16" -> SimpleSend16(o.a)
    [] o.name = "send16bytes" -> SimpleSend16Bytes(o.a, o.b)

\* the pin calls made by operation o of SimpleSpiFastInterface
FastCalls(o) ==
  CASE o.name = "begin" -> FastBegin
    [] o.name = "end" -> FastEnd
    [] o.name = "beginTransaction" -> FastBeginTransaction
    [] o.name = "endTransaction" -> FastEndTransaction
    [] o.name = "transfer" -> FastTransfer(o.a)
    [] o.name = "transfer16" -> FastTransfer16(o.a)
    [] o.name = "send8" -> FastSend8(o.a)
    [] o.name = "send16" -> FastSend16(o.a)
    [] o.name = "send16bytes" -> FastSend16Bytes(o.a, o.b)

\* the levels written to pin by the digitalWrite calls of s, in order
RECURSIVE WritesTo(_, _)
WritesTo(pin, s) ==
  IF s = <<>> THEN <<>>
  ELSE (IF Head(s).call = "digitalWrite" /\ Head(s).pin = pin
          THEN <<Head(s).arg>> ELSE <<>>)
       \o WritesTo(pin, Tail(s))

\* Operation o run to completion: the calls it makes in each tier, and the
\* levels and modes they leave from each assignment of levels and of modes,
\* and the levels they write to the latch pin.
Effect(o) ==
  LET c == [t \in Tiers |-> IF t = "Simple" THEN SimpleCalls(o) ELSE FastCalls(o)]
  IN  [calls  |-> c,
       levels |-> [t \in Tiers |->
                    [lv \in [Pins -> Levels] |-> LevelsAfter(lv, c[t])]],
       modes  |-> [t \in Tiers |->
                    [md \in [Pins -> Modes] |-> ModesAfter(md, c[t])]],
       latch  |-> [t \in Tiers |-> WritesTo(mLatchPin, c[t])]]

\* the effects, tabulated once
SampleTable == [o \in SampleOps |-> Effect(o)]
ByteTable == [o \in ByteOps |-> Effect(o)]

----------------------------------------------------------------------------
(* The state machine *)

\* no call in progress on tier t ("both": the tiers run side by side, each
\* operation to completion)
Idle(t) ==
  [pc |-> "idle", tier |-> t, frame |-> FALSE, bytes |-> <<>>,
   val |-> 0, mask |-> 0, i |-> 0]

\* The state after construction of the two transmitters on boards whose
\* three pins have any modes and levels; pre holds the levels before the
\* constructor ran and writes the calls it made.  (The first conjunct is
\* true; comparing the table evaluates it once.)
Constructed ==
  /\ SampleTable = SampleTable
  /\ \E md \in [{T_LATCH_PIN, T_DATA_PIN, T_CLOCK_PIN} -> Modes],
        lv \in [{T_LATCH_PIN, T_DATA_PIN, T_CLOCK_PIN} -> Levels] :
       LET boardMode == [p \in Pins |-> IF p \in DOMAIN md THEN md[p] ELSE INPUT]
           boardLevel == [p \in Pins |-> IF p \in DOMAIN lv THEN lv[p] ELSE LOW]
           c == [t \in Tiers |->
                  IF t = "Simple"
                    THEN SimpleSpiInterface(T_LATCH_PIN, T_DATA_PIN, T_CLOCK_PIN)
                    ELSE SimpleSpiFastInterface]
       IN  /\ pre = [t \in Tiers |-> boardLevel]
           /\ writes = c
           /\ level = [t \in Tiers |-> LevelsAfter(boardLevel, c[t])]
           /\ mode = [t \in Tiers |-> ModesAfter(boardMode, c[t])]
  /\ op = Op("new", 0, 0)
  /\ latchLog = [t \in Tiers |-> <<>>]

\* no hardware wrapper in use: the SPI object is never called
SpiUnused ==
  [speed |-> 0, esp8266 |-> FALSE, begun |-> FALSE, open |-> <<>>, peak |-> <<>>]

\* no interrupt taken: no call is suspended
NoInterrupt == [state |-> "none", main |-> Idle("both"), a |-> 0]

Init ==
  Constructed /\ run = Idle("both") /\ spi = SpiUnused /\ isr = NoInterrupt

\* an operation that does nothing unless begin() has made the pins outputs
DoChecked(o, e) ==
  /\ op' = o
  /\ pre' = level
  /\ writes' = [t \in Tiers |->
                 IF o.name \in {"begin", "end"} \/ mode[t][T_CLOCK_PIN] = OUTPUT
                   THEN e.calls[t] ELSE <<>>]
  /\ level' = [t \in Tiers |-> LevelsAfter(level[t], writes'[t])]
  /\ mode' = [t \in Tiers |-> e.modes[t][mode[t]]]
  /\ UNCHANGED <<run, spi, isr>>

\* an operation that emits nothing when it repeats the previous call
DoOnChange(o, e) ==
  /\ op' = o
  /\ pre' = level
  /\ writes' = IF o = op THEN [t \in Tiers |-> <<>>] ELSE e.calls
  /\ level' = [t \in Tiers |-> LevelsAfter(level[t], writes'[t])]
  /\ mode' = [t \in Tiers |-> e.modes[t][mode[t]]]
  /\ UNCHANGED <<run, spi, isr>>

\* an operation with the effect e, run to completion by both tiers
Do(o, e) ==
  /\ op' = o
  /\ writes' = e.calls
  /\ pre' = level
  /\ level' = [t \in Tiers |-> e.levels[t][level[t]]]
  /\ mode' = [t \in Tiers |-> e.modes[t][mode[t]]]
  /\ UNCHANGED <<run, spi, isr>>

Call(o) == Do(o, SampleTable[o])

Begin == Call(Op("begin", 0, 0)) /\ UNCHANGED latchLog

End == Call(Op("end", 0, 0)) /\ UNCHANGED latchLog

BeginTransaction == Call(Op("beginTransaction", 0, 0)) /\ UNCHANGED latchLog

EndTransaction == Call(Op("endTransaction", 0, 0)) /\ UNCHANGED latchLog

Transfer ==
  \E v \in SampleBytes : Call(Op("transfer", v, 0)) /\ UNCHANGED latchLog

Transfer16 ==
  \E v \in SampleWords : Call(Op("transfer16", v, 0)) /\ UNCHANGED latchLog

Send8 ==
  \E v \in SampleBytes : Call(Op("send8", v, 0)) /\ UNCHANGED latchLog

Send16 ==
  \E v \in SampleWords : Call(Op("send16", v, 0)) /\ UNCHANGED latchLog

Send16Bytes ==
  \E msb \in SampleBytes, lsb \in SampleBytes :
    Call(Op("send16bytes", msb, lsb)) /\ UNCHANGED latchLog

Next ==
  \/ Begin
  \/ End
  \/ BeginTransaction
  \/ EndTransaction
  \/ Transfer
  \/ Transfer16
  \/ Send8
  \/ Send16
  \/ Send16Bytes

Spec == Init /\ [][Next]_vars

\* The same operations on boards fresh from reset, where every pin is an
\* input with its output register LOW.
InitReset ==
  /\ Init
  /\ \A t \in Tiers : \A p \in Pins : mode[t][p] = INPUT /\ level[t][p] = LOW

SpecReset == InitReset /\ [][Next]_vars

----------------------------------------------------------------------------
(* transfer and send8 on every byte value: one call from every assignment *)
(* of levels and modes                                                     *)

TransferByte ==
  /\ op.name = "new"
  /\ \E v \in Byte : Do(Op("transfer", v, 0), ByteTable[Op("transfer", v, 0)])
  /\ UNCHANGED latchLog

Send8Byte ==
  /\ op.name = "new"
  /\ \E v \in Byte : Do(Op("send8", v, 0), ByteTable[Op("send8", v, 0)])
  /\ UNCHANGED latchLog

NextByte == TransferByte \/ Send8Byte

InitByte == Init /\ ByteTable = ByteTable

SpecByte == InitByte /\ [][NextByte]_vars

----------------------------------------------------------------------------
(* Sequences of send8 and send16 calls on one transmitter, with the writes *)
(* to the latch pin logged                                                 *)

Logged(o) ==
  /\ \A t \in Tiers : Len(latchLog[t]) < 2 * MaxCalls
  /\ Call(o)
  /\ latchLog' = [t \in Tiers |->
                   latchLog[t] \o SampleTable[o].latch[t]]

LoggedSend8 == \E v \in SampleBytes : Logged(Op("send8", v, 0))

LoggedSend16 == \E v \in SampleWords : Logged(Op("send16", v, 0))

LoggedSend16Bytes ==
  \E msb \in SampleBytes, lsb \in SampleBytes :
    Logged(Op("send16bytes", msb, lsb))

NextSend == LoggedSend8 \/ LoggedSend16 \/ LoggedSend16Bytes

SpecSend == Init /\ [][NextSend]_vars

----------------------------------------------------------------------------
(* One transmitter, one pin write at a time: transfer, transfer16, send8   *)
(* and send16 as the statements of the code, with run holding the position *)
(* in the call and the locals of the shift loop                            *)

StepBytes == {17, 128}
StepWords == {4480}

StepOps ==
  {Op(n, v, 0) : n \in {"transfer", "send8"}, v \in StepBytes}
    \cup {Op(n, v, 0) : n \in {"transfer16", "send16"}, v \in StepWords}

\* send8 and send16 bracket their transfer with the transaction calls
Framed(o) == o.name \in {"send8", "send16"}

\* the bytes handed to the shift routine, in order
BytesOf(o) ==
  IF o.name \in {"transfer", "send8"}
    THEN << o.a >>
    ELSE << MsbOf(o.a), LsbOf(o.a) >>

\* the statement after the last transfer of a send that skips endTransaction
AfterTransfersNoEnd(frame) == "return"

\* the statement after the last transfer: endTransaction() in a send
AfterTransfers(frame) == IF frame THEN "endTransaction" ELSE "return"

\* digitalWrite(pin, val) / digitalWriteFast(pin, val) by the running tier
Write(pin, val) ==
  /\ level' = [level EXCEPT ![run.tier][pin] = val]
  /\ writes' = [writes EXCEPT ![run.tier] = Append(@, DigitalWriteCall(pin, val))]
  /\ UNCHANGED <<mode, pre, op, latchLog, spi, isr>>

\* the caller enters transfer, transfer16, send8 or send16
StepCall ==
  /\ run.pc = "idle"
  /\ run.tier \in Tiers
  /\ \E o \in StepOps :
       /\ op' = o
       /\ run' = [run EXCEPT
                    !.pc = IF Framed(o) THEN "beginTransaction" ELSE "transfer",
                    !.frame = Framed(o),
                    !.bytes = BytesOf(o)]
  /\ pre' = level
  /\ writes' = [writes EXCEPT ![run.tier] = <<>>]
  /\ UNCHANGED <<mode, level, latchLog, spi, isr>>

StepBeginTransaction ==
  /\ run.pc = "beginTransaction"
  /\ Write(T_LATCH_PIN, LOW)
  /\ run' = [run EXCEPT !.pc = "transfer"]

\* entry of shiftOut / shiftOutFast with the next byte
StepTransfer ==
  /\ run.pc = "transfer"
  /\ run' = [run EXCEPT !.pc = "loop",
                        !.val = Head(run.bytes),
                        !.bytes = Tail(run.bytes),
                        !.mask = IF run.tier = "Fast" THEN 128 ELSE 0,
                        !.i = 0]
  /\ UNCHANGED <<mode, level, pre, writes, op, latchLog, spi, isr>>

\* the loop test i < 8, and what follows the loop
StepLoop ==
  /\ run.pc = "loop"
  /\ run' = [run EXCEPT !.pc =
               IF run.i < 8
                 THEN (IF run.tier = "Fast" THEN "clockLow" ELSE "data")
                 ELSE IF run.bytes # <<>> THEN "transfer"
                 ELSE AfterTransfers(run.frame)]
  /\ UNCHANGED <<mode, level, pre, writes, op, latchLog, spi, isr>>

StepFastClockLow ==
  /\ run.tier = "Fast" /\ run.pc = "clockLow"
  /\ Write(T_CLOCK_PIN, LOW)
  /\ run' = [run EXCEPT !.pc = "data"]

StepFastData ==
  /\ run.tier = "Fast" /\ run.pc = "data"
  /\ Write(T_DATA_PIN, IF BitAnd(run.val, run.mask) # 0 THEN HIGH ELSE LOW)
  /\ run' = [run EXCEPT !.pc = "clockHigh"]

\* the last statement of an iteration with the mask shifted as a signed
\* char is: the top bit stays set
StepFastClockHighSigned ==
  /\ run.tier = "Fast" /\ run.pc = "clockHigh"
  /\ Write(T_CLOCK_PIN, HIGH)
  /\ run' = [run EXCEPT !.pc = "loop",
                        !.mask = (run.mask \div 2)
                                   + (IF run.mask >= 128 THEN 128 ELSE 0),
                        !.i = U8(run.i + 1)]

StepFastClockHigh ==
  /\ run.tier = "Fast" /\ run.pc = "clockHigh"
  /\ Write(T_CLOCK_PIN, HIGH)
  /\ run' = [run EXCEPT !.pc = "loop",
                        !.mask = run.mask \div 2,
                        !.i = U8(run.i + 1)]

StepSimpleData ==
  /\ run.tier = "Simple" /\ run.pc = "data"
  /\ Write(mDataPin, IF BitAnd(run.val, 128) # 0 THEN HIGH ELSE LOW)
  /\ run' = [run EXCEPT !.pc = "clockHigh", !.val = U8(run.val * 2)]

StepSimpleClockHigh ==
  /\ run.tier = "Simple" /\ run.pc = "clockHigh"
  /\ Write(mClockPin, HIGH)
  /\ run' = [run EXCEPT !.pc = "clockLow"]

StepSimpleClockLow ==
  /\ run.tier = "Simple" /\ run.pc = "clockLow"
  /\ Write(mClockPin, LOW)
  /\ run' = [run EXCEPT !.pc = "loop", !.i = U8(run.i + 1)]

StepEndTransaction ==
  /\ run.pc = "endTransaction"
  /\ Write(T_LATCH_PIN, HIGH)
  /\ run' = [run EXCEPT !.pc = "return"]

StepReturn ==
  /\ run.pc = "return"
  /\ run' = Idle(run.tier)
  /\ UNCHANGED <<mode, level, pre, writes, op, latchLog, spi, isr>>

\* the statements of a call in progress
Running ==
  \/ StepBeginTransaction
  \/ StepTransfer
  \/ StepLoop
  \/ StepFastClockLow
  \/ StepFastData
  \/ StepFastClockHigh
  \/ StepSimpleData
  \/ StepSimpleClockHigh
  \/ StepSimpleClockLow
  \/ StepEndTransaction
  \/ StepReturn

NextStep == StepCall \/ Running

\* a transmitter of either tier, on a board whose three pins are all
\* inputs or all outputs
InitStep ==
  /\ Constructed
  /\ \E t \in Tiers : run = Idle(t)
  /\ spi = SpiUnused
  /\ isr = NoInterrupt
  /\ \A t \in Tiers :
       \/ \A p \in {T_LATCH_PIN, T_DATA_PIN, T_CLOCK_PIN} : mode[t][p] = OUTPUT
       \/ \A p \in {T_LATCH_PIN, T_DATA_PIN, T_CLOCK_PIN} : mode[t][p] = INPUT

\* The code is straight-line but for the counted loop, single-threaded and
\* makes no blocking call: a call in progress always takes its next step.
SpecStep == InitStep /\ [][NextStep]_vars /\ WF_vars(Running)

----------------------------------------------------------------------------
(* One transmitter shared by the main code and an interrupt handler: the   *)
(* main code calls send8, and between any two of its statements a handler  *)
(* may run that calls send8 on the same object.  The classes hold no lock  *)
(* and mask no interrupt, so the handler's pin writes fall where the       *)
(* interrupt does.  writes[t] holds the pin writes made since the main     *)
(* code's call, the handler's among them.                                  *)

\* the main code calls send8
MainSend8 ==
  /\ isr.state = "none"
  /\ StepCall
  /\ op'.name = "send8"

\* an interrupt between two statements of send8: the handler calls send8
Interrupt ==
  /\ isr.state = "none"
  /\ run.pc # "idle"
  /\ \E v \in StepBytes :
       /\ run' = [Idle(run.tier) EXCEPT !.pc = "beginTransaction",
                                        !.frame = TRUE,
                                        !.bytes = << v >>]
       /\ isr' = [state |-> "handler", main |-> run, a |-> v]
  /\ UNCHANGED <<mode, level, pre, writes, op, latchLog, spi>>

\* the handler's send8 has returned: the interrupted call resumes
HandlerReturn ==
  /\ isr.state = "handler"
  /\ run.pc = "idle"
  /\ run' = isr.main
  /\ isr' = [isr EXCEPT !.state = "done", !.main = Idle("both")]
  /\ UNCHANGED <<mode, level, pre, writes, op, latchLog, spi>>

NextShared == MainSend8 \/ Interrupt \/ HandlerReturn \/ Running

\* a transmitter of either tier after begin(): its three pins are outputs,
\* at any levels
InitShared ==
  /\ Constructed
  /\ \E t \in Tiers : run = Idle(t)
  /\ spi = SpiUnused
  /\ isr = NoInterrupt
  /\ \A t \in Tiers : \A p \in {T_LATCH_PIN, T_DATA_PIN, T_CLOCK_PIN} :
       mode[t][p] = OUTPUT

SpecShared == InitShared /\ [][NextShared]_vars

----------------------------------------------------------------------------
(* The classes of the library side by side, each on its own copy of the    *)
(* same board: the caller makes one call, with the same arguments, on      *)
(* every class that declares the operation.  SpecLib runs all the classes  *)
(* through the unified interface, SpecHard the hardware wrappers through   *)
(* all their operations.                                                   *)

HardClasses == {"Hard", "HardFast", "HardFastOld"}
Classes == Tiers \cup {"Sw"} \cup HardClasses

\* the unified interface of the README, and the operations below it
UnifiedInterface == {"begin", "end", "send8", "send16", "send16bytes"}
Operations ==
  UnifiedInterface
    \cup {"beginTransaction", "endTransaction", "transfer", "transfer16"}

\* the operations class c declares
Offers(c) ==
  CASE c \in {"Simple", "Fast", "Hard", "HardFast"} -> Operations
    [] c = "Sw" -> {"begin", "end", "send8", "send16"}
    [] c = "HardFastOld" -> UnifiedInterface

LibOps ==
  {Op(n, 0, 0) : n \in {"begin", "end", "beginTransaction", "endTransaction"}}
    \cup {Op(n, v, 0) : n \in {"transfer", "send8"}, v \in StepBytes}
    \cup {Op(n, v, 0) : n \in {"transfer16", "send16"}, v \in StepWords}
    \cup {Op("send16bytes", msb, lsb) : msb \in StepBytes, lsb \in StepBytes}

SwCalls(o) ==
  CASE o.name = "begin" -> SwBegin
    [] o.name = "end" -> SwEnd
    [] o.name = "send8" -> SwSend8(o.a)
    [] o.name = "send16" -> SwSend16(o.a)
    [] OTHER -> <<>>

HardCalls(o) ==
  CASE o.name = "begin" -> HardBegin
    [] o.name = "end" -> HardEnd
    [] o.name = "beginTransaction" -> HardBeginTransaction
    [] o.name = "endTransaction" -> HardEndTransaction
    [] o.name = "transfer" -> HardTransfer(o.a)
    [] o.name = "transfer16" -> HardTransfer16(o.a)
    [] o.name = "send8" -> HardSend8(o.a)
    [] o.name = "send16" -> HardSend16(o.a)
    [] o.name = "send16bytes" -> HardSend16Bytes(o.a, o.b)

HardFastCalls(o) ==
  CASE o.name = "begin" -> HardFastBegin
    [] o.name = "end" -> HardFastEnd
    [] o.name = "beginTransaction" -> HardFastBeginTransaction
    [] o.name = "endTransaction" -> HardFastEndTransaction
    [] o.name = "transfer" -> HardFastTransfer(o.a)
    [] o.name = "transfer16" -> HardFastTransfer16(o.a)
    [] o.name = "send8" -> HardFastSend8(o.a)
    [] o.name = "send16" -> HardFastSend16(o.a)
    [] o.name = "send16bytes" -> HardFastSend16Bytes(o.a, o.b)

HardFastOldCalls(o) ==
  CASE o.name = "begin" -> HardFastOldBegin
    [] o.name = "end" -> HardFastOldEnd
    [] o.name = "send8" -> HardFastOldSend8(o.a)
    [] o.name = "send16" -> HardFastOldSend16(o.a)
    [] o.name = "send16bytes" -> HardFastOldSend16Bytes(o.a, o.b)
    [] OTHER -> <<>>

\* the calls of SwSpiFastInterface and their effect, tabulated once
SwTable ==
  [o \in LibOps |->
    LET c == SwCalls(o)
    IN  [calls  |-> c,
         levels |-> [lv \in [Pins -> Levels] |-> LevelsAfter(lv, c)],
         modes  |-> [md \in [Pins -> Modes] |-> ModesAfter(md, c)]]]

\* the calls operation o makes on class c; none where c does not declare it
LibCalls(c, o) ==
  IF o.name \notin Offers(c) THEN <<>>
  ELSE CASE c \in Tiers -> SampleTable[o].calls[c]
         [] c = "Sw" -> SwTable[o].calls
         [] c = "Hard" -> HardCalls(o)
         [] c = "HardFast" -> HardFastCalls(o)
         [] c = "HardFastOld" -> HardFastOldCalls(o)

LibLevels(c, o, lv) ==
  IF o.name \notin Offers(c) THEN lv
  ELSE CASE c \in Tiers -> SampleTable[o].levels[c][lv]
         [] c = "Sw" -> SwTable[o].levels[lv]
         [] OTHER -> LevelsAfter(lv, LibCalls(c, o))

LibModes(c, o, md) ==
  IF o.name \notin Offers(c) THEN md
  ELSE CASE c \in Tiers -> SampleTable[o].modes[c][md]
         [] c = "Sw" -> SwTable[o].modes[md]
         [] OTHER -> ModesAfter(md, LibCalls(c, o))

\* the number of SPI transactions open after the calls of s, from n open,
\* and the largest number open on the way
OpenAfterCall(n, e) ==
  IF e.call = "SPI.beginTransaction" THEN n + 1
  ELSE IF e.call = "SPI.endTransaction" THEN n - 1
  ELSE n

RECURSIVE OpenAfter(_, _)
OpenAfter(n, s) ==
  IF s = <<>> THEN n ELSE OpenAfter(OpenAfterCall(n, Head(s)), Tail(s))

RECURSIVE PeakOpen(_, _)
PeakOpen(n, s) ==
  IF s = <<>> THEN n
  ELSE LET rest == PeakOpen(OpenAfterCall(n, Head(s)), Tail(s))
       IN  IF rest > n THEN rest ELSE n

\* The state after construction of one object of every class of K, on
\* boards whose pins of the set pins have any modes and levels, for each
\* build of the hardware wrappers; the SPI object has not been started and
\* has no transaction open.
ConstructedOn(K, pins) ==
  /\ \E md \in [pins -> Modes], lv \in [pins -> Levels] :
       LET boardMode == [p \in Pins |-> IF p \in DOMAIN md THEN md[p] ELSE INPUT]
           boardLevel == [p \in Pins |-> IF p \in DOMAIN lv THEN lv[p] ELSE LOW]
           c == [k \in K |->
                  CASE k = "Simple" ->
                         SimpleSpiInterface(T_LATCH_PIN, T_DATA_PIN, T_CLOCK_PIN)
                    [] k = "Hard" -> HardSpiInterface("SPI", T_LATCH_PIN)
                    [] k \in {"HardFast", "HardFastOld"} -> HardSpiFastInterface
                    [] OTHER -> SimpleSpiFastInterface]
       IN  /\ pre = [k \in K |-> boardLevel]
           /\ writes = c
           /\ level = [k \in K |-> LevelsAfter(boardLevel, c[k])]
           /\ mode = [k \in K |-> ModesAfter(boardMode, c[k])]
  /\ op = Op("new", 0, 0)
  /\ latchLog = [k \in K |-> <<>>]
  /\ run = Idle("both")
  /\ isr = NoInterrupt
  /\ \E speed \in ClockSpeeds, esp \in BOOLEAN :
       spi = [speed |-> speed, esp8266 |-> esp, begun |-> FALSE,
              open |-> [k \in HardClasses |-> 0],
              peak |-> [k \in HardClasses |-> 0]]

\* every class of the library, on the three pins, the hardware wrappers
\* with the default clock speed
InitLib ==
  /\ SampleTable = SampleTable
  /\ SwTable = SwTable
  /\ ConstructedOn(Classes, {T_LATCH_PIN, T_DATA_PIN, T_CLOCK_PIN})
  /\ spi.speed = DefaultClockSpeed

\* the hardware wrappers, which use the latch pin only
InitHard == ConstructedOn(HardClasses, {T_LATCH_PIN})

\* operation o on every class of the state, run to completion
LibCall(o) ==
  /\ \A k \in HardClasses :
       /\ OpenAfter(spi.open[k], LibCalls(k, o)) <= MaxOpen
       /\ OpenAfter(spi.open[k], LibCalls(k, o)) >= 0 - MaxOpen
  /\ op' = o
  /\ pre' = level
  /\ writes' = [k \in DOMAIN level |-> LibCalls(k, o)]
  /\ level' = [k \in DOMAIN level |-> LibLevels(k, o, level[k])]
  /\ mode' = [k \in DOMAIN level |-> LibModes(k, o, mode[k])]
  /\ spi' = [spi EXCEPT
               !.open = [k \in HardClasses |->
                          OpenAfter(spi.open[k], LibCalls(k, o))],
               !.peak = [k \in HardClasses |->
                          PeakOpen(spi.open[k], LibCalls(k, o))]]
  /\ UNCHANGED <<latchLog, run, isr>>

\* the caller starts the SPI object, as runHardSpi does before begin()
SpiBegin ==
  /\ op' = Op("SPI.begin", 0, 0)
  /\ pre' = level
  /\ writes' = [k \in DOMAIN level |-> <<>>]
  /\ spi' = [spi EXCEPT !.begun = TRUE,
                        !.peak = spi.open]
  /\ UNCHANGED <<mode, level, latchLog, run, isr>>

LibBegin == LibCall(Op("begin", 0, 0))

LibEnd == LibCall(Op("end", 0, 0))

LibBeginTransaction == LibCall(Op("beginTransaction", 0, 0))

LibEndTransaction == LibCall(Op("endTransaction", 0, 0))

LibTransfer == \E v \in StepBytes : LibCall(Op("transfer", v, 0))

LibTransfer16 == \E v \in StepWords : LibCall(Op("transfer16", v, 0))

LibSend8 == \E v \in StepBytes : LibCall(Op("send8", v, 0))

LibSend16 == \E v \in StepWords : LibCall(Op("send16", v, 0))

LibSend16Bytes ==
  \E msb \in StepBytes, lsb \in StepBytes :
    LibCall(Op("send16bytes", msb, lsb))

\* calling code written against the unified interface, on every class
NextLib ==
  \/ LibBegin
  \/ LibEnd
  \/ LibSend8
  \/ LibSend16
  \/ LibSend16Bytes

SpecLib == InitLib /\ [][NextLib]_vars

\* send16(msb, lsb) of the hardware wrappers on every pair of bytes: one
\* call on transmitters that begin() has set up
Send16BytesWord ==
  /\ op.name = "new"
  /\ \E msb \in Byte, lsb \in Byte : LibCall(Op("send16bytes", msb, lsb))

InitWord ==
  /\ InitHard
  /\ spi.speed = DefaultClockSpeed
  /\ ~spi.esp8266
  /\ \A k \in HardClasses :
       mode[k][T_LATCH_PIN] = OUTPUT /\ level[k][T_LATCH_PIN] = HIGH

SpecWord == InitWord /\ [][Send16BytesWord]_vars

\* every operation of the hardware wrappers, and the caller's SPI.begin()
NextHard ==
  \/ SpiBegin
  \/ LibBegin
  \/ LibEnd
  \/ LibBeginTransaction
  \/ LibEndTransaction
  \/ LibTransfer
  \/ LibTransfer16
  \/ LibSend8
  \/ LibSend16
  \/ LibSend16Bytes

SpecHard == InitHard /\ [][NextHard]_vars

\* sequences of send8 and send16 calls only on the hardware wrappers
NextHardSend == LibSend8 \/ LibSend16 \/ LibSend16Bytes

SpecHardSend == InitHard /\ [][NextHardSend]_vars

----------------------------------------------------------------------------
(* The AutoBenchmark sketch on an AVR build: runBenchmarks() makes the     *)
(* four runs in program order, each on an object of its own class.  run    *)
(* holds the run in progress (tier), the statement reached (pc), the       *)
(* sample counter of runBenchmark (i) and the bytes of the sample still to *)
(* send (bytes); latchLog[c] holds the levels class c wrote to the latch.  *)

\* uint16_t numSamples = 20
numSamples == 20

\* the eight bytes of a sample, 0x11 .. 0x88
BenchBytes == << 17, 34, 51, 68, 85, 102, 119, 136 >>

\* runBenchmarks(): runHardSpi, runHardSpiFast, runSimpleSpi, runSimpleSpiFast
BenchRuns == << "Hard", "HardFast", "Simple", "Fast" >>

\* the first statement of the k-th run; past the last run, setup() goes on
BenchRun(k) ==
  IF k > Len(BenchRuns)
    THEN [Idle("none") EXCEPT !.pc = "done"]
    ELSE [Idle(BenchRuns[k]) EXCEPT
            !.pc = IF BenchRuns[k] \in HardClasses THEN "SPI.begin" ELSE "begin"]

\* the calls operation o of class c makes
ClassCalls(c, o) ==
  CASE c = "Simple" -> SimpleCalls(o)
    [] c = "Fast" -> FastCalls(o)
    [] c = "Hard" -> HardCalls(o)
    [] c = "HardFast" -> HardFastCalls(o)

\* operation o on the object of the run in progress, run to completion
BenchDo(o) ==
  LET c == run.tier
      calls == ClassCalls(c, o)
  IN  /\ op' = o
      /\ pre' = level
      /\ writes' = [writes EXCEPT ![c] = calls]
      /\ level' = [level EXCEPT ![c] = LevelsAfter(@, calls)]
      /\ mode' = [mode EXCEPT ![c] = ModesAfter(@, calls)]
      /\ latchLog' = [latchLog EXCEPT ![c] = @ \o WritesTo(mLatchPin, calls)]
      /\ spi' = IF c \in HardClasses
                  THEN [spi EXCEPT
                          !.open = [@ EXCEPT ![c] = OpenAfter(@, calls)],
                          !.peak = [@ EXCEPT ![c] = PeakOpen(spi.open[c], calls)]]
                  ELSE spi
      /\ UNCHANGED isr

\* setup() calls runBenchmarks()
BenchStart ==
  /\ run.pc = "idle"
  /\ run' = BenchRun(1)
  /\ UNCHANGED <<mode, level, pre, writes, op, latchLog, spi, isr>>

\* SPI.begin() of runHardSpi and runHardSpiFast
BenchSpiBegin ==
  /\ run.pc = "SPI.begin"
  /\ op' = Op("SPI.begin", 0, 0)
  /\ pre' = level
  /\ writes' = [writes EXCEPT ![run.tier] = <<>>]
  /\ spi' = [spi EXCEPT !.begun = TRUE]
  /\ run' = [run EXCEPT !.pc = "begin"]
  /\ UNCHANGED <<mode, level, latchLog, isr>>

\* spiInterface.begin(), then runBenchmark() is entered with i = 0
BenchBegin ==
  /\ run.pc = "begin"
  /\ BenchDo(Op("begin", 0, 0))
  /\ run' = [run EXCEPT !.pc = "loop", !.i = 0]

\* the loop test i < numSamples of runBenchmark
BenchLoop ==
  /\ run.pc = "loop"
  /\ run' = IF run.i < numSamples
              THEN [run EXCEPT !.pc = "send8", !.bytes = BenchBytes]
              ELSE [run EXCEPT !.pc = "end"]
  /\ UNCHANGED <<mode, level, pre, writes, op, latchLog, spi, isr>>

\* the next send8 of the sample; after the eighth, i++
BenchSend8 ==
  /\ run.pc = "send8"
  /\ BenchDo(Op("send8", Head(run.bytes), 0))
  /\ run' = IF Tail(run.bytes) = <<>>
              THEN [run EXCEPT !.pc = "loop", !.bytes = <<>>, !.i = run.i + 1]
              ELSE [run EXCEPT !.bytes = Tail(run.bytes)]

\* the run returns without calling end()
BenchEndSkipped ==
  /\ run.pc = "end"
  /\ run' = BenchRun(1 + CHOOSE k \in DOMAIN BenchRuns : BenchRuns[k] = run.tier)
  /\ UNCHANGED <<mode, level, pre, writes, op, latchLog, spi, isr>>

\* spiInterface.end(); the run returns and the next one starts
BenchEnd ==
  /\ run.pc = "end"
  /\ BenchDo(Op("end", 0, 0))
  /\ run' = BenchRun(1 + CHOOSE k \in DOMAIN BenchRuns : BenchRuns[k] = run.tier)

NextBench ==
  BenchStart \/ BenchSpiBegin \/ BenchBegin \/ BenchLoop \/ BenchSend8 \/ BenchEnd

\* the four objects on boards whose three pins have any modes and levels;
\* HardSpiInterface<SPIClass> and HardSpiFastInterface<SPIClass, LATCH_PIN>
\* with the default clock speed
InitBench ==
  /\ ConstructedOn({BenchRuns[k] : k \in DOMAIN BenchRuns},
                   {T_LATCH_PIN, T_DATA_PIN, T_CLOCK_PIN})
  /\ spi.speed = DefaultClockSpeed
  /\ ~spi.esp8266

SpecBench == InitBench /\ [][NextBench]_vars

----------------------------------------------------------------------------
(* What a peripheral sees of the last operation *)

\* bit k of v (bit 0 is the least significant), and the level that carries it
BitOf(v, k) == (v \div (2 ^ k)) % 2
LevelOfBit(b) == IF b = 1 THEN HIGH ELSE LOW

\* the data levels at the LOW-to-HIGH transitions of the clock made by the
\* calls s[i], s[i+1], ..., from the clock level clk and the data level dat
RECURSIVE EdgesFrom(_, _, _, _, _, _)
EdgesFrom(s, i, clockPin, dataPin, clk, dat) ==
  IF i > Len(s) THEN <<>>
  ELSE IF s[i].call = "digitalWrite" /\ s[i].pin = clockPin
    THEN (IF clk = LOW /\ s[i].arg = HIGH THEN <<dat>> ELSE <<>>)
         \o EdgesFrom(s, i + 1, clockPin, dataPin, s[i].arg, dat)
  ELSE IF s[i].call = "digitalWrite" /\ s[i].pin = dataPin
    THEN EdgesFrom(s, i + 1, clockPin, dataPin, clk, s[i].arg)
  ELSE EdgesFrom(s, i + 1, clockPin, dataPin, clk, dat)

\* the data levels sampled at the rising clock edges of the last operation
RisingEdges(t) ==
  EdgesFrom(writes[t], 1, T_CLOCK_PIN, T_DATA_PIN,
            pre[t][T_CLOCK_PIN], pre[t][T_DATA_PIN])

\* the n low bits of v as levels, most significant first
MsbFirst(v, n) == [i \in 1..n |-> LevelOfBit(BitOf(v, n - i))]

\* the three pins are outputs: the state begin() leaves
Active(t) ==
  /\ mode[t][T_LATCH_PIN] = OUTPUT
  /\ mode[t][T_DATA_PIN] = OUTPUT
  /\ mode[t][T_CLOCK_PIN] = OUTPUT

\* for bit k of v down to bit 0: clock LOW, data = the bit, clock HIGH
RECURSIVE ClockLowDataClockHigh(_, _, _, _)
ClockLowDataClockHigh(dataPin, clockPin, v, k) ==
  IF k < 0 THEN <<>>
  ELSE << DigitalWriteCall(clockPin, LOW),
          DigitalWriteCall(dataPin, LevelOfBit(BitOf(v, k))),
          DigitalWriteCall(clockPin, HIGH) >>
       \o ClockLowDataClockHigh(dataPin, clockPin, v, k - 1)

----------------------------------------------------------------------------
(* Claims *)

\* C1: in every state with the pins set up by begin(), transfer(v) makes, in
\* both tiers, exactly 8 LOW-to-HIGH transitions of the clock, and the data
\* level at the i-th of them is bit 7-i of v (most significant bit first).
C1_TransferEightRisingEdges ==
  (op.name = "transfer" /\ \A t \in Tiers : Active(t))
    => \A t \in Tiers : RisingEdges(t) = MsbFirst(op.a, 8)

\* C2: in the fast tier transfer(v) makes exactly 24 pin writes: for bit 7
\* down to bit 0 of v, clock LOW, data = the bit, clock HIGH, and no other
\* call.
C2_FastTransferWrites ==
  op.name = "transfer"
    => /\ Len(writes["Fast"]) = 24
       /\ writes["Fast"] =
            ClockLowDataClockHigh(T_DATA_PIN, T_CLOCK_PIN, op.a, 7)

C2_Witness ==
  /\ op = Op("transfer", 17, 0)
  /\ Len(writes["Fast"]) = 24
  /\ writes["Fast"][11] = DigitalWriteCall(T_DATA_PIN, HIGH)

\* C3: in the general-purpose tier transfer(v) writes, for bit 7 down to bit
\* 0 of v, clock LOW, then data = the bit, then clock HIGH.
C3_SimpleTransferClockLowFirst ==
  op.name = "transfer"
    => writes["Simple"] = ClockLowDataClockHigh(mDataPin, mClockPin, op.a, 7)

\* C4: for every operation and argument the two tiers make the same sequence
\* of pin calls and leave the three lines at the same levels.
C4_TiersIdentical ==
  /\ writes["Simple"] = writes["Fast"]
  /\ level["Simple"] = level["Fast"]

\* C5: send8(v) writes, in both tiers, latch LOW first, then exactly the
\* calls of transfer(v), then latch HIGH last; the latch is written exactly
\* twice, and no clock or data write comes before the first or after the
\* second.
C5_Send8Framing ==
  op.name = "send8"
    => \A t \in Tiers :
         LET s == writes[t]
         IN  /\ Len(s) >= 2
             /\ s[1] = DigitalWriteCall(T_LATCH_PIN, LOW)
             /\ s[Len(s)] = DigitalWriteCall(T_LATCH_PIN, HIGH)
             /\ SubSeq(s, 2, Len(s) - 1)
                  = ByteTable[Op("transfer", op.a, 0)].calls[t]
             /\ WritesTo(T_LATCH_PIN, s) = <<LOW, HIGH>>

C5_Witness ==
  /\ op = Op("send8", 17, 0)
  /\ Len(writes["Simple"]) = 26
  /\ Len(writes["Fast"]) = 26
  /\ \A t \in Tiers : level[t][T_LATCH_PIN] = HIGH

\* C6: send16(v) is a single frame in both tiers: one latch LOW, then 16
\* clock pulses that carry bit 15 down to bit 0 of v, then one latch HIGH,
\* with no latch write in between.
C6_Send16SingleFrame ==
  op.name = "send16"
    => \A t \in Tiers :
         LET s == writes[t]
         IN  /\ s[1] = DigitalWriteCall(T_LATCH_PIN, LOW)
             /\ s[Len(s)] = DigitalWriteCall(T_LATCH_PIN, HIGH)
             /\ WritesTo(T_LATCH_PIN, s) = <<LOW, HIGH>>
             /\ RisingEdges(t) = MsbFirst(op.a, 16)

\* the split of transfer16 loses nothing, for every 16-bit value
SplitLossless ==
  \A v \in 0..65535 :
    /\ MsbOf(v) \in Byte
    /\ LsbOf(v) \in Byte
    /\ MsbOf(v) * 256 + LsbOf(v) = v

\* C7: transfer16(v) makes exactly the calls of transfer(v >> 8) followed by
\* those of transfer(v & 0xFF), and the split is lossless: the two bytes
\* are in 0..255 and msb * 256 + lsb = v.
C7_Transfer16IsTwoTransfers ==
  /\ SplitLossless
  /\ op.name = "transfer16"
       => \A t \in Tiers :
            writes[t] = SampleTable[Op("transfer", op.a \div 256, 0)].calls[t]
                        \o SampleTable[Op("transfer", op.a % 256, 0)].calls[t]

C7_Witness ==
  /\ op = Op("transfer16", 17 * 256 + 128, 0)
  /\ Len(writes["Simple"]) = 48
  /\ Len(writes["Fast"]) = 48

\* C8: send16(msb, lsb) makes the same calls as send16((msb << 8) | lsb),
\* in both tiers.
C8_Send16BytesIsSend16 ==
  op.name = "send16bytes"
    => \A t \in Tiers :
         writes[t]
           = SampleTable[Op("send16", BitOr(U16(op.a * 256), op.b), 0)].calls[t]

C8_Witness ==
  /\ op = Op("send16bytes", 52, 18)
  /\ Len(writes["Simple"]) = 50
  /\ Len(writes["Fast"]) = 50

\* C9: over any sequence of send8 and send16 calls on one transmitter the
\* writes to the latch pin alternate LOW, HIGH, LOW, HIGH, ..., starting
\* with LOW.
C9_LatchAlternates ==
  \A t \in Tiers :
    \A i \in 1..Len(latchLog[t]) :
      latchLog[t][i] = IF i % 2 = 1 THEN LOW ELSE HIGH

C9_Witness ==
  /\ op.name = "send16"
  /\ \A t \in Tiers : Len(latchLog[t]) = 2 * MaxCalls

\* C10: begin() leaves the latch, data and clock pins in OUTPUT mode, and a
\* begin() that follows a begin() changes no pin mode and no pin level.
C10_BeginOutputIdempotent ==
  /\ [](op.name = "begin" => \A t \in Tiers : Active(t))
  /\ [][(op.name = "begin" /\ op'.name = "begin")
          => (mode' = mode /\ level' = level)]_vars

C10_Witness ==
  /\ op.name = "begin"
  /\ pre = level
  /\ \A t \in Tiers : Active(t)


\* the three pins are inputs: the state end() leaves
Released(t) ==
  /\ mode[t][T_LATCH_PIN] = INPUT
  /\ mode[t][T_DATA_PIN] = INPUT
  /\ mode[t][T_CLOCK_PIN] = INPUT

\* C11: end() leaves the latch, data and clock pins in INPUT mode, and an
\* end() that follows an end() changes no pin mode and no pin level.
C11_EndInputIdempotent ==
  /\ [](op.name = "end" => \A t \in Tiers : Released(t))
  /\ [][(op.name = "end" /\ op'.name = "end")
          => (mode' = mode /\ level' = level)]_vars

C11_Witness ==
  /\ op.name = "end"
  /\ pre = level
  /\ \A t \in Tiers : Released(t)

\* C12: beginTransaction() makes exactly one call, the write of LOW to the
\* latch, and endTransaction() exactly one, the write of HIGH to the latch;
\* both leave the data level, the clock level and every pin mode as they
\* were.
C12_TransactionFrame ==
  [][\A t \in Tiers :
       /\ op'.name = "beginTransaction"
            => writes'[t] = << DigitalWriteCall(T_LATCH_PIN, LOW) >>
       /\ op'.name = "endTransaction"
            => writes'[t] = << DigitalWriteCall(T_LATCH_PIN, HIGH) >>
       /\ op'.name \in {"beginTransaction", "endTransaction"}
            => /\ mode'[t] = mode[t]
               /\ level'[t][T_DATA_PIN] = level[t][T_DATA_PIN]
               /\ level'[t][T_CLOCK_PIN] = level[t][T_CLOCK_PIN]]_vars

C12_Witness ==
  /\ op.name = "endTransaction"
  /\ \A t \in Tiers :
       /\ pre[t][T_LATCH_PIN] = LOW
       /\ level[t][T_LATCH_PIN] = HIGH
       /\ level[t][T_DATA_PIN] = HIGH

\* C13: transfer(v) and transfer16(v) never write the latch pin: from every
\* state the latch level after the call is the level before it, and every
\* call made is a write to the data pin or to the clock pin.
C13_TransferLeavesLatch ==
  op.name \in {"transfer", "transfer16"}
    => \A t \in Tiers :
         /\ level[t][T_LATCH_PIN] = pre[t][T_LATCH_PIN]
         /\ \A i \in 1..Len(writes[t]) :
              /\ writes[t][i].call = "digitalWrite"
              /\ writes[t][i].pin \in {T_DATA_PIN, T_CLOCK_PIN}

C13_Witness ==
  /\ op.name = "transfer16"
  /\ \A t \in Tiers :
       /\ Len(writes[t]) = 48
       /\ pre[t][T_LATCH_PIN] = LOW
       /\ level[t][T_LATCH_PIN] = LOW

\* C14: beginTransaction, endTransaction, transfer, transfer16, send8 and
\* send16 change no pin mode, so once the three pins are inputs (as end()
\* leaves them) they stay inputs through every call but begin().
C14_OnlyBeginEndSetModes ==
  [][/\ op'.name \notin {"begin", "end"} => mode' = mode
     /\ \A t \in Tiers :
          (Released(t) /\ op'.name # "begin") => Released(t)']_vars

C14_Witness ==
  /\ op.name = "send16"
  /\ \A t \in Tiers : Released(t) /\ level[t][T_LATCH_PIN] = HIGH


\* the calls the code of operation op makes in tier t: a function of the
\* operation, its arguments and the pin numbers only
CallsOf(t) == IF t = "Simple" THEN SimpleCalls(op) ELSE FastCalls(op)

\* the last operation was a misuse of the protocol in tier t: a transfer
\* entered with the latch HIGH (no transaction open), a beginTransaction
\* entered with the latch already LOW, or a transfer or send while the pins
\* are not outputs (before begin(), after end())
Misused(t) ==
  \/ op.name \in {"transfer", "transfer16"} /\ pre[t][T_LATCH_PIN] = HIGH
  \/ op.name = "beginTransaction" /\ pre[t][T_LATCH_PIN] = LOW
  \/ /\ op.name \in {"transfer", "transfer16", "send8", "send16", "send16bytes"}
     /\ ~Active(t)

C17_ConstructorTouchesNoPin ==
  op.name = "new"
    => \A t \in Tiers : writes[t] = <<>> /\ level[t] = pre[t]

C17_Witness ==
  /\ op.name = "new"
  /\ \A t \in Tiers :
       /\ mode[t][T_LATCH_PIN] = INPUT
       /\ mode[t][T_DATA_PIN] = OUTPUT
       /\ level[t][T_CLOCK_PIN] = HIGH

\* C18: the members hold the constructor arguments, every call of every
\* operation targets the latch, data or clock pin given at construction,
\* and no other pin ever changes mode or level.
C18_PinsFixed ==
  /\ mLatchPin = T_LATCH_PIN
  /\ mDataPin = T_DATA_PIN
  /\ mClockPin = T_CLOCK_PIN
  /\ \A t \in Tiers :
       /\ \A i \in 1..Len(writes[t]) :
            writes[t][i].pin \in {T_LATCH_PIN, T_DATA_PIN, T_CLOCK_PIN}
       /\ \A p \in Pins \ {T_LATCH_PIN, T_DATA_PIN, T_CLOCK_PIN} :
            mode[t][p] = INPUT /\ level[t][p] = LOW

C18_Witness ==
  /\ op.name = "send16"
  /\ \A t \in Tiers : Active(t) /\ Len(writes[t]) = 50

C20_ClockIdleLow ==
  \A t \in Tiers : Active(t) => level[t][T_CLOCK_PIN] = LOW


\* the pin writes of one complete call
WriteCount(name) ==
  CASE name = "transfer" -> 24
    [] name = "transfer16" -> 48
    [] name = "send8" -> 26
    [] name = "send16" -> 50

\* a send8 or send16 in progress has driven the latch LOW and not yet HIGH
FrameOpen ==
  /\ run.frame
  /\ run.pc \in {"transfer", "loop", "clockLow", "data", "clockHigh",
                 "endTransaction"}

\* C16: transfer, transfer16, send8 and send16 return, for every argument,
\* after exactly 24, 48, 26 and 50 pin writes (never more on the way), and a
\* send8 or send16 that has driven the latch LOW returns with the latch
\* driven HIGH by its last write.
C16_RunsToCompletion ==
  /\ [](run.pc # "idle" => Len(writes[run.tier]) <= WriteCount(op.name))
  /\ [](run.pc = "return" => Len(writes[run.tier]) = WriteCount(op.name))
  /\ (run.pc # "idle") ~> (run.pc = "return")
  /\ FrameOpen ~> (/\ run.pc = "return"
                   /\ level[run.tier][T_LATCH_PIN] = HIGH
                   /\ writes[run.tier][Len(writes[run.tier])]
                        = DigitalWriteCall(T_LATCH_PIN, HIGH))

C16_Witness ==
  /\ run.pc = "return"
  /\ run.tier = "Fast"
  /\ op.name = "send16"
  /\ Len(writes["Fast"]) = 50
  /\ pre["Fast"][T_LATCH_PIN] = LOW
  /\ level["Fast"][T_LATCH_PIN] = HIGH


\* C22: every class of the library declares the five operations of the
\* unified interface, so each call of calling code written against it is
\* accepted, and acted on, by every class.
C22_UnifiedInterfaceEverywhere ==
  op.name \in UnifiedInterface
    => \A c \in Classes : op.name \in Offers(c) /\ writes[c] # <<>>

\* C23: after every operation HardSpiFastInterface has made the calls on the
\* SPI object and on the latch pin that HardSpiInterface has made, in the
\* same order with the same arguments, and left the same levels and modes.
C23_HardFastIsHard ==
  /\ writes["HardFast"] = writes["Hard"]
  /\ level["HardFast"] = level["Hard"]
  /\ mode["HardFast"] = mode["Hard"]

C23_Witness ==
  /\ op = Op("send16bytes", 128, 17)
  /\ spi.speed # DefaultClockSpeed
  /\ Len(writes["HardFast"]) = 5
  /\ writes["HardFast"][3] = SpiCall("SPI.transfer16", 32785)

\* the settings class c passes to the SPI object
SettingsOf(c) ==
  [clock |-> IF c = "HardFastOld" THEN 8000000 ELSE spi.speed,
   bitOrder |-> "MSBFIRST",
   dataMode |-> "SPI_MODE0"]

\* C24: every beginTransaction call on the SPI object carries the settings
\* (T_CLOCK_SPEED, MSBFIRST, SPI_MODE0), where T_CLOCK_SPEED is the template
\* argument and 8000000 by default.
C24_Mode0MsbFirst ==
  /\ DefaultClockSpeed = 8000000
  /\ \A c \in HardClasses :
       \A i \in 1..Len(writes[c]) :
         writes[c][i].call = "SPI.beginTransaction"
           => writes[c][i].arg = SettingsOf(c)

C24_Witness ==
  /\ op.name = "send8"
  /\ spi.speed = 1000000
  /\ writes["Hard"][1] =
       SpiCall("SPI.beginTransaction",
               [clock |-> 1000000, bitOrder |-> "MSBFIRST",
                dataMode |-> "SPI_MODE0"])
  /\ writes["HardFastOld"][1].arg.clock = 8000000

\* the calls of s on pins
PinCalls(s) == SelectSeq(s, LAMBDA e : e.call \in {"pinMode", "digitalWrite"})

\* C25: begin() of the hardware wrappers makes one pin call, pinMode(latch,
\* OUTPUT), and end() one, pinMode(latch, INPUT); neither calls begin, end,
\* beginTransaction or endTransaction on the SPI object, and the SPI object
\* is started only by the caller's own SPI.begin().
C25_HardBeginEndLatchOnly ==
  /\ [](\A c \in HardClasses :
         /\ op.name = "begin"
              => PinCalls(writes[c]) = << PinModeCall(T_LATCH_PIN, OUTPUT) >>
         /\ op.name = "end"
              => PinCalls(writes[c]) = << PinModeCall(T_LATCH_PIN, INPUT) >>
         /\ op.name \in {"begin", "end"}
              => /\ level[c] = pre[c]
                 /\ \A i \in 1..Len(writes[c]) :
                      writes[c][i].call \notin
                        {"SPI.begin", "SPI.end", "SPI.beginTransaction",
                         "SPI.endTransaction"})
  /\ [][spi'.begun # spi.begun => op'.name = "SPI.begin"]_vars

C25_Witness ==
  /\ op.name = "begin"
  /\ ~spi.begun
  /\ \A c \in HardClasses : mode[c][T_LATCH_PIN] = OUTPUT

\* C26: send8(v) and send16(v) of the hardware wrappers make five calls in
\* this order: SPI beginTransaction, latch LOW, SPI transfer (transfer16)
\* of v, latch HIGH, SPI endTransaction.
C26_HardSendOrder ==
  \A c \in HardClasses :
    /\ op.name = "send8"
         => writes[c] = << SpiCall("SPI.beginTransaction", SettingsOf(c)),
                           DigitalWriteCall(T_LATCH_PIN, LOW),
                           SpiCall("SPI.transfer", op.a),
                           DigitalWriteCall(T_LATCH_PIN, HIGH),
                           SpiCall("SPI.endTransaction", "none") >>
    /\ op.name = "send16"
         => writes[c] = << SpiCall("SPI.beginTransaction", SettingsOf(c)),
                           DigitalWriteCall(T_LATCH_PIN, LOW),
                           SpiCall("SPI.transfer16", op.a),
                           DigitalWriteCall(T_LATCH_PIN, HIGH),
                           SpiCall("SPI.endTransaction", "none") >>

C26_Witness ==
  /\ op = Op("send16", 4480, 0)
  /\ \A c \in HardClasses :
       /\ pre[c][T_LATCH_PIN] = HIGH
       /\ level[c][T_LATCH_PIN] = HIGH
       /\ Len(writes[c]) = 5

\* C27: over sequences of send8 and send16 calls on the hardware wrappers
\* no SPI transaction is open between calls, and at most one (exactly one,
\* at some point) is open during a call.
C27_TransactionsBalanced ==
  \A c \in HardClasses :
    /\ spi.open[c] = 0
    /\ spi.peak[c] <= 1
    /\ op.name # "new" => spi.peak[c] = 1

C27_Witness ==
  /\ op.name = "send16"
  /\ \A c \in HardClasses : spi.open[c] = 0 /\ spi.peak[c] = 1

\* C28: for all bytes msb and lsb, send16(msb, lsb) of the hardware
\* wrappers makes the calls of send16(w) with w = msb * 256 + lsb; w fits
\* 16 bits, is the value of the C++ expression, and splits back into msb
\* and lsb.
C28_Send16BytesWord ==
  op.name = "send16bytes"
    => LET w == op.a * 256 + op.b
       IN  /\ w <= 65535
           /\ BitOr(op.a * 256, op.b) = w
           /\ w \div 256 = op.a
           /\ BitAnd(w, 255) = op.b
           /\ writes["Hard"] = HardSend16(w)
           /\ writes["HardFast"] = HardFastSend16(w)
           /\ writes["HardFastOld"] = HardFastOldSend16(w)

C28_Witness ==
  /\ op = Op("send16bytes", 255, 255)
  /\ \A c \in HardClasses : writes[c][3] = SpiCall("SPI.transfer16", 65535)

\* C30: begin() and end() write no pin level in any class: in particular
\* begin() does not drive the latch HIGH, so after begin() the latch level
\* is the level from before it.
C30_BeginEndWriteNoLevel ==
  [][op'.name \in {"begin", "end"}
       => /\ level' = level
          /\ \A c \in Classes : \A i \in 1..Len(writes'[c]) :
               writes'[c][i].call # "digitalWrite"]_vars

C30_Witness ==
  /\ op.name = "begin"
  /\ \A c \in {"Simple", "Fast", "Hard"} :
       /\ mode[c][T_LATCH_PIN] = OUTPUT
       /\ pre[c][T_LATCH_PIN] = LOW
       /\ level[c][T_LATCH_PIN] = LOW


\* the calls s[i], s[i+1], ..., made from the clock level clk, write the data
\* pin only while the clock pin is LOW
RECURSIVE DataWhileClockLow(_, _, _, _, _)
DataWhileClockLow(s, i, clockPin, dataPin, clk) ==
  IF i > Len(s) THEN TRUE
  ELSE IF s[i].call = "digitalWrite" /\ s[i].pin = clockPin
    THEN DataWhileClockLow(s, i + 1, clockPin, dataPin, s[i].arg)
  ELSE IF s[i].call = "digitalWrite" /\ s[i].pin = dataPin
    THEN clk = LOW /\ DataWhileClockLow(s, i + 1, clockPin, dataPin, clk)
  ELSE DataWhileClockLow(s, i + 1, clockPin, dataPin, clk)

\* the number of writes to pin among the calls of s
PinWrites(s, pin) ==
  Len(SelectSeq(s, LAMBDA e : e.call = "digitalWrite" /\ e.pin = pin))

\* C29: in the fast tier every write to the data pin made by transfer,
\* transfer16, send8 and send16 is made while the clock is LOW, whatever the
\* clock level at entry, so the data level is stable at every rising edge and
\* while the clock is HIGH.
C29_DataChangesWhileClockLow ==
  op.name \in {"transfer", "transfer16", "send8", "send16", "send16bytes"}
    => DataWhileClockLow(writes["Fast"], 1, T_CLOCK_PIN, T_DATA_PIN,
                         pre["Fast"][T_CLOCK_PIN])

\* send16 entered with the clock HIGH has written its sixteen data bits
C29_Witness ==
  /\ op.name = "send16"
  /\ pre["Fast"][T_CLOCK_PIN] = HIGH
  /\ PinWrites(writes["Fast"], T_DATA_PIN) = 16
  /\ Len(RisingEdges("Fast")) = 16


\* the data levels sampled at the rising clock edges of each latch bracket
\* (from a write of LOW to the latch pin to the next write of HIGH) closed by
\* the calls s[i], s[i+1], ...; open tells whether a bracket is open and cur
\* holds the levels it has sampled so far
RECURSIVE BracketsFrom(_, _, _, _, _, _)
BracketsFrom(s, i, clk, dat, open, cur) ==
  IF i > Len(s) THEN <<>>
  ELSE IF s[i].call = "digitalWrite" /\ s[i].pin = T_LATCH_PIN
    THEN IF s[i].arg = LOW
           THEN BracketsFrom(s, i + 1, clk, dat, TRUE,
                             IF open THEN cur ELSE <<>>)
           ELSE (IF open THEN << cur >> ELSE <<>>)
                \o BracketsFrom(s, i + 1, clk, dat, FALSE, <<>>)
  ELSE IF s[i].call = "digitalWrite" /\ s[i].pin = T_CLOCK_PIN
    THEN BracketsFrom(s, i + 1, s[i].arg, dat, open,
                      IF open /\ clk = LOW /\ s[i].arg = HIGH
                        THEN Append(cur, dat) ELSE cur)
  ELSE IF s[i].call = "digitalWrite" /\ s[i].pin = T_DATA_PIN
    THEN BracketsFrom(s, i + 1, clk, s[i].arg, open, cur)
  ELSE BracketsFrom(s, i + 1, clk, dat, open, cur)

\* the latch brackets closed since the main code's call
Brackets(t) ==
  BracketsFrom(writes[t], 1, pre[t][T_CLOCK_PIN], pre[t][T_DATA_PIN],
               FALSE, <<>>)

\* C21: with no interleaving (the send8 call ran to completion with no
\* handler between its statements) no latch bracket contains a number of
\* clock pulses other than 8 or bits of another value: the call leaves one
\* bracket, whose 8 rising edges sample the bits of its value, MSB first.
C21_SequentialBracketWhole ==
  (isr.state = "none" /\ op.name = "send8" /\ run.pc = "return")
    => Brackets(run.tier) = << MsbFirst(op.a, 8) >>

\* C21, the interleaved half: a handler's send8 ran between two statements
\* of the main code's send8, and a latch bracket contains a number of rising
\* edges other than 8 or the bits of neither value alone
C21_InterleavedBracketBroken ==
  /\ isr.state = "done"
  /\ run.pc = "return"
  /\ \E k \in DOMAIN Brackets(run.tier) :
       \/ Len(Brackets(run.tier)[k]) # 8
       \/ Brackets(run.tier)[k] \notin {MsbFirst(op.a, 8), MsbFirst(isr.a, 8)}


\* C34: in shiftOutFast, at the start of and throughout iteration i (0..7)
\* the mask is 0x80 >> i = 2^(7-i); the counter i never exceeds 8; the loop
\* exits after exactly 8 iterations per byte, with i = 8 and the mask 0.
C34_MaskVisitsEachBit ==
  run.tier = "Fast" =>
    /\ run.i <= 8
    /\ run.pc \in {"clockLow", "data", "clockHigh"}
         => run.i \in 0..7 /\ run.mask = 2^(7 - run.i)
    /\ run.pc = "loop"
         => run.mask = (IF run.i < 8 THEN 2^(7 - run.i) ELSE 0)
    /\ run.pc \in {"endTransaction", "return"}
         => /\ run.i = 8
            /\ run.mask = 0
    /\ run.pc = "return"
         => PinWrites(writes["Fast"], T_DATA_PIN) = 8 * Len(BytesOf(op))

\* the loop test that ends the second byte of send16: i = 8, mask = 0
C34_Witness ==
  /\ run.tier = "Fast"
  /\ run.pc = "loop"
  /\ op.name = "send16"
  /\ run.bytes = <<>>
  /\ run.i = 8
  /\ run.mask = 0
  /\ PinWrites(writes["Fast"], T_DATA_PIN) = 16


\* the last byte shifted out by the last send
LastByteSent == IF op.name = "send16bytes" THEN op.b ELSE LsbOf(op.a)

\* C31: after every non-empty sequence of completed send8 and send16 calls,
\* in both software tiers, the latch level is HIGH and the data level is
\* bit 0 of the last byte sent (v & 1, or lsb & 1 for send16(msb, lsb)).
C31_LatchHighDataBit0 ==
  op.name \in {"send8", "send16", "send16bytes"}
    => /\ LastByteSent % 2 = (IF op.name = "send16bytes" THEN op.b ELSE op.a) % 2
       /\ \A t \in Tiers :
            /\ level[t][T_LATCH_PIN] = HIGH
            /\ level[t][T_DATA_PIN] = LevelOfBit(BitOf(LastByteSent, 0))

\* the second call of a sequence, send16(msb, lsb) with msb even and lsb odd,
\* entered with the data level LOW, has left the data level HIGH
C31_Witness ==
  /\ op.name = "send16bytes"
  /\ op.a % 2 = 0
  /\ op.b % 2 = 1
  /\ \A t \in Tiers :
       /\ Len(latchLog[t]) = 4
       /\ pre[t][T_DATA_PIN] = LOW
       /\ level[t][T_DATA_PIN] = HIGH
       /\ level[t][T_LATCH_PIN] = HIGH


\* C32: the earlier versions make the calls of their replacements:
\* SwSpiFastInterface the pin calls of SimpleSpiFastInterface in begin, end,
\* send8 and send16(uint16_t), and the earlier HardSpiFastInterface the SPI
\* calls and latch writes of the current one, built with the default clock
\* speed, in send8 and both forms of send16.
C32_EarlierVersionsAgree ==
  /\ spi.speed = DefaultClockSpeed
  /\ kClockSpeed = DefaultClockSpeed
  /\ op.name \in {"begin", "end", "send8", "send16"}
       => writes["Sw"] = writes["Fast"]
  /\ op.name \in {"send8", "send16", "send16bytes"}
       => writes["HardFastOld"] = writes["HardFast"]

C32_Witness ==
  /\ op = Op("send16", 4480, 0)
  /\ Len(writes["Sw"]) = 50
  /\ writes["Sw"] = writes["Fast"]
  /\ Len(writes["HardFastOld"]) = 5
  /\ writes["HardFastOld"][1].arg.clock = 8000000


\* the pins the object of class c drives itself: the three pins in the
\* software classes, the latch pin in the hardware wrappers (the SPI object
\* drives the data and clock lines)
DrivenPins(c) ==
  IF c \in Tiers THEN {T_LATCH_PIN, T_DATA_PIN, T_CLOCK_PIN} ELSE {T_LATCH_PIN}

\* the latch pulses of a log: a write of LOW followed by a write of HIGH
LatchPulses(log) ==
  Cardinality({k \in 1..(Len(log) - 1) : log[k] = LOW /\ log[k + 1] = HIGH})

\* the run on class c has returned
Returned(c) ==
  \/ run.pc = "done"
  \/ /\ run.pc # "idle"
     /\ \E j, k \in DOMAIN BenchRuns :
          BenchRuns[j] = c /\ BenchRuns[k] = run.tier /\ j < k

\* C33: in each of the four benchmark runs begin() precedes the first
\* send8 and end() follows the last: every one of the 160 = 20 * 8 send8
\* calls is issued with the pins the object drives in OUTPUT mode, the calls
\* make exactly 160 latch pulses, and those pins are in INPUT mode when the
\* run has returned.
C33_BenchmarkLifecycle ==
  /\ 8 * numSamples = 160
  /\ run.pc \in {"SPI.begin", "begin"} => latchLog[run.tier] = <<>>
  /\ run.pc = "send8"
       => /\ \A p \in DrivenPins(run.tier) : mode[run.tier][p] = OUTPUT
          /\ Len(latchLog[run.tier])
               = 2 * (8 * run.i + Len(BenchBytes) - Len(run.bytes))
  /\ run.pc = "end"
       => /\ run.i = numSamples
          /\ Len(latchLog[run.tier]) = 2 * 160
          /\ LatchPulses(latchLog[run.tier]) = 160
  /\ \A c \in DOMAIN mode :
       Returned(c)
         => /\ \A p \in DrivenPins(c) : mode[c][p] = INPUT
            /\ Len(latchLog[c]) = 2 * 160

\* the four runs have returned, from a board whose pins were outputs
C33_Witness ==
  /\ run.pc = "done"
  /\ op.name = "end"
  /\ \A c \in DOMAIN mode :
       /\ LatchPulses(latchLog[c]) = 160
       /\ \A p \in DrivenPins(c) : mode[c][p] = INPUT
  /\ mode["Hard"][T_CLOCK_PIN] = OUTPUT

====
